---- MODULE Spec2Model ----
(***************************************************************************)
(* Model of the cached translator of src/src/translator/index.js:          *)
(* translate (validation, key normalisation, cache, chunking and merging,  *)
(* token, transport, body decoding, response parsing) and loadLanguages.   *)
(*                                                                         *)
(* Strings that the code inspects character by character (texts, cache     *)
(* keys) are sequences of one-character strings.  Language identifiers and *)
(* JavaScript's non-string values are TLA+ strings; the values undefined,  *)
(* null and false are the markers JsUndefined, JsNull and JsFalse.         *)
(***************************************************************************)
EXTENDS Integers, Sequences, FiniteSets, TLC

VARIABLES
    stack,      \* per caller: the chain of suspended async calls, top-level first
    cache,      \* the module-level NodeCache: key -> [val, t]
    clock,      \* Date.now(), in seconds
    ticks,      \* number of clock advances made so far
    calls,      \* number of top-level calls made so far
    nTok,       \* per caller: Token Provider calls of the current top-level call
    nTr,        \* per caller: Transport calls of the current top-level call
    nGet,       \* per caller: cache reads of the current top-level call
    nSet,       \* per caller: cache writes of the current top-level call
    hist,       \* key -> the last result translate returned under it, the time
                \* of that call (at) and of the call that computed it (wat)
    wrote,      \* key -> the (fromISO, toISO, text) of the translate call
                \* that computed the value last written under the key
    cStr,       \* chunkText harness: the text
    cLimit,     \* chunkText harness: the limit
    cParts,     \* chunkText harness: the chunks returned
    cPc,        \* chunkText harness: "in" before the call, "out" after it
    pBody,      \* parser harness: the decoded payload
    pFrom,      \* parser harness: the requested source ISO code
    pRaw,       \* parser harness: options.raw
    pOut,       \* parser harness: what parsing produced
    pPc,        \* parser harness: "in" before parsing, "out" after it
    files,      \* loader: what the module at each path exports at present
    commands,   \* loader: client.commands, name -> registered module
    ldOpts,     \* loader: the client and the options of the call
    ldPc,       \* loader: "off", "start", "loop", "watching" or "done"
    ldPaths,    \* loader: the paths left to load in the initial loop
    ldLoaded,   \* loader: the counter `loaded`
    reloads,    \* loader: modules loaded by watch callbacks that await
    events      \* loader: number of file-change events so far

vars == << stack, cache, clock, ticks, calls, nTok, nTr, nGet, nSet, hist, wrote, cStr, cLimit, cParts, cPc, pBody, pFrom, pRaw, pOut, pPc, files, commands, ldOpts, ldPc, ldPaths, ldLoaded, reloads, events >>

mainVars == << stack, cache, clock, ticks, calls, nTok, nTr, nGet, nSet,
               hist, wrote >>
chunkVars == << cStr, cLimit, cParts, cPc >>
parseVars == << pBody, pFrom, pRaw, pOut, pPc >>
loaderVars == << files, commands, ldOpts, ldPc, ldPaths, ldLoaded, reloads,
                events >>

----------------------------------------------------------------------------
(* JavaScript values *)

JsUndefined == "#undefined"
JsNull == "#null"
JsFalse == "#false"
Absent == "#absent"          \* the options object has no such own property

\* ToBoolean of a value that is a string or one of the markers
Truthy(v) == v \notin {JsUndefined, JsNull, JsFalse, Absent, ""}

\* v ?? w
Coalesce(v, w) == IF v \in {JsUndefined, JsNull, Absent} THEN w ELSE v

\* the characters of the string a template literal makes of a value
Chars(v) ==
    CASE v = "auto" -> << "a", "u", "t", "o" >>
      [] v = "en" -> << "e", "n" >>
      [] v = "fr" -> << "f", "r" >>
      [] v = "English" -> << "E", "n", "g", "l", "i", "s", "h" >>
      [] v = "xx" -> << "x", "x" >>
      [] v = JsFalse -> << "f", "a", "l", "s", "e" >>
      [] v = JsNull -> << "n", "u", "l", "l" >>
      [] v \in {JsUndefined, Absent} ->
            << "u", "n", "d", "e", "f", "i", "n", "e", "d" >>
      [] OTHER -> << >>

RECURSIVE Concat(_)
Concat(seqs) ==
    IF seqs = << >> THEN << >> ELSE Head(seqs) \o Concat(Tail(seqs))

----------------------------------------------------------------------------
(* The Chunk Engine: chunkText(str, limit) *)

Whitespace == {" "}

\* str.split(/(\s+)/): the runs of non-whitespace and of whitespace, in
\* order, starting and ending with a (possibly empty) non-whitespace run
RECURSIVE SplitFrom(_, _, _, _)
SplitFrom(str, i, cur, acc) ==
    IF i > Len(str) THEN Append(acc, cur)
    ELSE IF str[i] \in Whitespace
         THEN IF acc # << >> /\ cur = << >> /\ i > 1 /\ str[i - 1] \in Whitespace
              THEN SplitFrom(str, i + 1, cur,
                             [acc EXCEPT ![Len(acc)] = Append(@, str[i])])
              ELSE SplitFrom(str, i + 1, << >>,
                             Append(Append(acc, cur), << str[i] >>))
         ELSE SplitFrom(str, i + 1, Append(cur, str[i]), acc)

\* str.split(/\s+/): the separators are not kept
SplitDropSpaces(str) ==
    SelectSeq(SplitFrom(str, 1, << >>, << >>),
              LAMBDA tok : tok = << >> \/ tok[1] \notin Whitespace)

SplitKeepSpaces(str) == SplitFrom(str, 1, << >>, << >>)

\* while (current.length > limit) { parts.push(current.slice(0, limit)); ... }
RECURSIVE HardSplit(_, _, _)
HardSplit(parts, current, limit) ==
    IF Len(current) > limit
    THEN HardSplit(Append(parts, SubSeq(current, 1, limit)),
                   SubSeq(current, limit + 1, Len(current)), limit)
    ELSE [parts |-> parts, current |-> current]

\* one round of the loop over the tokens
ChunkStep(st, tok, limit) ==
    IF Len(st.current \o tok) > limit /\ Len(st.current) > 0
    THEN HardSplit(Append(st.parts, st.current), tok, limit)
    ELSE [parts |-> st.parts, current |-> st.current \o tok]

RECURSIVE ChunkLoop(_, _, _)
ChunkLoop(st, tokens, limit) ==
    IF tokens = << >> THEN st
    ELSE ChunkLoop(ChunkStep(st, Head(tokens), limit), Tail(tokens), limit)

chunkText(str, limit) ==
    IF Len(str) <= limit THEN << str >>
    ELSE LET st == ChunkLoop([parts |-> << >>, current |-> << >>],
                             SplitKeepSpaces(str), limit)
         IN  IF st.current # << >> THEN Append(st.parts, st.current)
             ELSE st.parts

----------------------------------------------------------------------------
(* The Language Table (./languages): codes and their names *)

LangCodes == {"auto", "en", "fr"}

LangName(code) ==
    CASE code = "auto" -> "Automatic"
      [] code = "en" -> "English"
      [] code = "fr" -> "French"
      [] OTHER -> JsUndefined

\* getISOCode(lang): the code itself, the code of a language name, null when
\* the table knows neither, false when there is nothing to look up
getISOCode(lang) ==
    IF ~Truthy(lang) THEN JsFalse
    ELSE IF lang \in LangCodes THEN lang
    ELSE IF \E c \in LangCodes : LangName(c) = lang
         THEN CHOOSE c \in LangCodes : LangName(c) = lang
         ELSE JsNull

isSupported(lang) == Truthy(getISOCode(lang))

----------------------------------------------------------------------------
(* Errors and results *)

NoCode == 0                  \* an Error object that carries no code property

makeError(code, message) == [code |-> code, message |-> message]

NoError == makeError(NoCode, "")

EmptyRaw == [k |-> "empty", body |-> << >>, items |-> << >>]
PayloadRaw(body) == [k |-> "payload", body |-> << body >>, items |-> << >>]
ListRaw(items) == [k |-> "list", body |-> << >>, items |-> items]

\* let result = { text: "", from: { language: {...}, text: {...} }, raw: "" }
BlankResult ==
    [text |-> << >>,
     from |-> [language |-> [didYouMean |-> FALSE, iso |-> ""],
               text |-> [autoCorrected |-> FALSE, value |-> << >>,
                         didYouMean |-> FALSE]],
     raw |-> EmptyRaw]

----------------------------------------------------------------------------
(* The Response Parser *)

\* A decoded payload, by what the code reads of it:
\*   isArr    Array.isArray(body)
\*   b0Arr    Array.isArray(body[0])
\*   segs     for each obj of body[0], the characters of obj[0]
\*            (<< >> when obj or obj[0] is falsy)
\*   p2       body?.[2]
\*   p8       body?.[8]?.[0]?.[0]
\*   p7       body?.[7]: arr (Array.isArray), first ([7][0]: its type t and
\*            its text s as a sequence of markup tokens), five ([7][5])

\* result.text += obj[0] for every obj of body[0] with a truthy obj[0]
ExtractText(body) ==
    IF body.isArr /\ body.b0Arr
    THEN Concat(body.segs)
    ELSE << >>

\* the two places looked at in the other order
DetectedIsoTopFirst(body, fromISO) ==
    Coalesce(body.p2, Coalesce(body.p8, fromISO))

\* body?.[8]?.[0]?.[0] ?? body?.[2] ?? fromISO
DetectedIso(body, fromISO) == Coalesce(body.p8, Coalesce(body.p2, fromISO))

ParseLanguage(body, fromISO) ==
    LET detectedIso == DetectedIso(body, fromISO)
    IN  IF Truthy(detectedIso) /\ detectedIso # fromISO
        THEN [didYouMean |-> TRUE, iso |-> detectedIso]
        ELSE [didYouMean |-> FALSE,
              iso |-> IF Truthy(detectedIso) THEN detectedIso ELSE fromISO]

\* Array.isArray(body?.[7]) && body[7][0]
HasSuggestion(body) ==
    /\ body.p7.arr
    /\ \/ body.p7.first.t = "number"
       \/ body.p7.first.t = "string" /\ body.p7.first.s # << >>

\* str.replace(/<b><i>/g, "[").replace(/<\/i><\/b>/g, "]")
ReplaceMarkup(str) ==
    [i \in 1..Len(str) |->
        CASE str[i] = "<b><i>" -> "["
          [] str[i] = "</i></b>" -> "]"
          [] OTHER -> str[i]]

\* str.replace exists only on strings
SuggestionThrows(body) == HasSuggestion(body) /\ body.p7.first.t # "string"

\* didYouMean set without the else
ParseSuggestionNoElse(body) ==
    IF HasSuggestion(body)
    THEN [autoCorrected |-> body.p7.five = "true",
          value |-> ReplaceMarkup(body.p7.first.s), didYouMean |-> TRUE]
    ELSE BlankResult.from.text

ParseSuggestion(body) ==
    IF HasSuggestion(body)
    THEN IF body.p7.five = "true"
         THEN [autoCorrected |-> TRUE, value |-> ReplaceMarkup(body.p7.first.s),
               didYouMean |-> FALSE]
         ELSE [autoCorrected |-> FALSE, value |-> ReplaceMarkup(body.p7.first.s),
               didYouMean |-> TRUE]
    ELSE BlankResult.from.text

\* lines 153-201: the result built from a decoded body, or the TypeError
ParseBody(body, fromISO, raw) ==
    IF SuggestionThrows(body)
    THEN [ok |-> FALSE, err |-> makeError(NoCode, "TypeError"),
          res |-> BlankResult]
    ELSE [ok |-> TRUE, err |-> NoError,
          res |-> [text |-> ExtractText(body),
                   from |-> [language |-> ParseLanguage(body, fromISO),
                             text |-> ParseSuggestion(body)],
                   raw |-> IF raw THEN PayloadRaw(body) ELSE EmptyRaw]]

----------------------------------------------------------------------------
(* The Cache: new NodeCache({ stdTTL: 86400 }) *)

stdTTL == 86400

\* stdTTL taken for milliseconds
ExpiryInMs(now) == now + stdTTL \div 1000

\* the expiry time stored with an entry written at `now`
ExpiryOf(now) == now + stdTTL

\* an entry is dropped on the first read after its expiry time
Expired(entry, now) == entry.t < now

\* cache.get(key): hit says whether a value came back, cache is the store
\* afterwards (an expired entry is deleted by the read that finds it)
CacheGet(c, key, now) ==
    IF key \in DOMAIN c
    THEN IF Expired(c[key], now)
         THEN [hit |-> FALSE, val |-> BlankResult,
               cache |-> [k \in DOMAIN c \ {key} |-> c[k]]]
         ELSE [hit |-> TRUE, val |-> c[key].val, cache |-> c]
    ELSE [hit |-> FALSE, val |-> BlankResult, cache |-> c]

\* cache.set(key, value): installs or replaces, with a fresh TTL
CacheSet(c, key, val, now) ==
    [k \in DOMAIN c \cup {key} |->
        IF k = key THEN [val |-> val, t |-> ExpiryOf(now)] ELSE c[k]]

----------------------------------------------------------------------------
(* translate: the synchronous part of a call, up to its first await *)

\* only options.from is validated
ValidationErrorFromOnly(opts) ==
    IF Truthy(opts.from) /\ ~isSupported(opts.from)
    THEN makeError(400, "not supported: from")
    ELSE NoError

\* [ options.from, options.to ].forEach(...): the last unsupported one wins
ValidationError(opts) ==
    IF Truthy(opts.to) /\ ~isSupported(opts.to)
    THEN makeError(400, "not supported: to")
    ELSE IF Truthy(opts.from) /\ ~isSupported(opts.from)
         THEN makeError(400, "not supported: from")
         ELSE NoError

NormFrom(opts) == getISOCode(IF opts.from # Absent THEN opts.from ELSE "auto")
NormTo(opts) == getISOCode(IF opts.to # Absent THEN opts.to ELSE "fr")
NormRaw(opts) == opts.raw = "true"

\* `${fromISO}-${toISO}-${text}`
CacheKey(fromISO, toISO, text) ==
    Chars(fromISO) \o << "-" >> \o Chars(toISO) \o << "-" >> \o text

DefaultChunkChars == 4500

\* Math.max(1, Number(options.maxChunkChars) || 4500); the option is << >>
\* when absent and << n >> when given
MaxChunkChars(opts) ==
    IF opts.maxChunkChars = << >> \/ opts.maxChunkChars[1] = 0
    THEN DefaultChunkChars
    ELSE IF opts.maxChunkChars[1] < 1 THEN 1 ELSE opts.maxChunkChars[1]

\* the merged result before the first chunk
InitMerged(fromISO, raw) ==
    [text |-> << >>,
     from |-> [language |-> [didYouMean |-> FALSE, iso |-> fromISO],
               text |-> BlankResult.from.text],
     raw |-> IF raw THEN ListRaw(<< >>) ELSE EmptyRaw]

\* merged.from = r.from without the test of i
MergeChunkLastFrom(merged, r, i, raw) ==
    [text |-> merged.text \o r.text,
     from |-> r.from,
     raw |-> IF raw THEN ListRaw(Append(merged.raw.items, r.raw))
             ELSE merged.raw]

\* the loop body after the await of chunk i (1-based) returned r
MergeChunk(merged, r, i, raw) ==
    [text |-> merged.text \o r.text,
     from |-> IF i = 1 THEN r.from ELSE merged.from,
     raw |-> IF raw THEN ListRaw(Append(merged.raw.items, r.raw))
             ELSE merged.raw]

\* the recursive call given half the limit
ChunkOptionsHalved(f) ==
    [from |-> f.fromISO, to |-> f.toISO,
     raw |-> IF f.raw THEN "true" ELSE "false",
     maxChunkChars |-> << (f.limit + 1) \div 2 >>]

\* the options of the recursive call for a chunk
ChunkOptions(f) ==
    [from |-> f.fromISO, to |-> f.toISO,
     raw |-> IF f.raw THEN "true" ELSE "false",
     maxChunkChars |-> << f.limit >>]

NoToken == [t |-> "none", name |-> "", value |-> ""]
NoRequest == [method |-> "", q |-> FALSE, body |-> FALSE, urlLen |-> 0]

\* opts, at, prior, rs, src and fallback record the call for the properties:
\* the options as given, the time of the call, what the caller last got
\* under its key, the results the chunk calls returned, the body that was
\* parsed and how the fallback decoding of lines 143-150 went
TranslateFrame(text, opts, now) ==
    [op |-> "translate", pc |-> "entry", text |-> text, opts |-> opts,
     at |-> now, prior |-> << >>,
     fromISO |-> NormFrom(opts), toISO |-> NormTo(opts), raw |-> NormRaw(opts),
     limit |-> MaxChunkChars(opts),
     key |-> CacheKey(NormFrom(opts), NormTo(opts), text),
     chunks |-> << >>, i |-> 0, merged |-> BlankResult, rs |-> << >>,
     token |-> NoToken, req |-> NoRequest, fallback |-> "none", src |-> << >>, ret |-> BlankResult, err |-> NoError]

\* the calls for all the chunks made at once, none awaited before the next
RECURSIVE EnterTranslateAll(_, _, _, _)
RECURSIVE EnterAllChunks(_, _, _, _)
EnterAllChunks(g, j, c, now) ==
    IF j > Len(g.chunks)
    THEN [frames |-> << >>, cache |-> c, gets |-> 0, toks |-> 0]
    ELSE LET sub == EnterTranslateAll(g.chunks[j], ChunkOptions(g), c, now)
             rest == EnterAllChunks(g, j + 1, sub.cache, now)
         IN  [frames |-> sub.frames \o rest.frames, cache |-> rest.cache,
              gets |-> sub.gets + rest.gets, toks |-> sub.toks + rest.toks]

EnterTranslateAll(text, opts, c, now) ==
    LET f == TranslateFrame(text, opts, now)
        error == ValidationError(opts)
        got == CacheGet(c, f.key, now)
        chunks == chunkText(text, f.limit)
    IN  IF error # NoError
        THEN [frames |-> << [f EXCEPT !.pc = "thrown", !.err = error] >>,
              cache |-> c, gets |-> 0, toks |-> 0]
        ELSE IF got.hit
        THEN [frames |-> << [f EXCEPT !.pc = "returned", !.ret = got.val] >>,
              cache |-> got.cache, gets |-> 1, toks |-> 0]
        ELSE IF Len(chunks) > 1
        THEN LET g == [f EXCEPT !.pc = "chunks", !.chunks = chunks, !.i = 1,
                                !.merged = InitMerged(f.fromISO, f.raw)]
                 all == EnterAllChunks(g, 1, got.cache, now)
             IN  [frames |-> << g >> \o all.frames, cache |-> all.cache,
                  gets |-> 1 + all.gets, toks |-> all.toks]
        ELSE [frames |-> << [f EXCEPT !.pc = "token"] >>,
              cache |-> got.cache, gets |-> 1, toks |-> 1]

\* The frames a call of translate(text, opts) leaves suspended, the store
\* afterwards and the cache reads and token requests it made.  A call that
\* chunks runs the call for its first chunk before it suspends.
RECURSIVE EnterTranslate(_, _, _, _)
EnterTranslate(text, opts, c, now) ==
    LET f == TranslateFrame(text, opts, now)
        error == ValidationError(opts)
        got == CacheGet(c, f.key, now)
        chunks == chunkText(text, f.limit)
    IN  IF error # NoError
        THEN [frames |-> << [f EXCEPT !.pc = "thrown", !.err = error] >>,
              cache |-> c, gets |-> 0, toks |-> 0]
        ELSE IF got.hit
        THEN [frames |-> << [f EXCEPT !.pc = "returned", !.ret = got.val] >>,
              cache |-> got.cache, gets |-> 1, toks |-> 0]
        ELSE IF Len(chunks) > 1
        THEN LET g == [f EXCEPT !.pc = "chunks", !.chunks = chunks, !.i = 1,
                                !.merged = InitMerged(f.fromISO, f.raw)]
                 sub == EnterTranslate(chunks[1], ChunkOptions(g), got.cache, now)
             IN  [frames |-> << g >> \o sub.frames, cache |-> sub.cache,
                  gets |-> 1 + sub.gets, toks |-> sub.toks]
        ELSE [frames |-> << [f EXCEPT !.pc = "token"] >>,
              cache |-> got.cache, gets |-> 1, toks |-> 1]

----------------------------------------------------------------------------
(* The Request Builder *)

\* the length of baseUrl + "?" + querystring.stringify(data) with sl, tl,
\* hl and q empty and without the token's pair
FixedUrlLen == 176
UrlLimit == 2048

\* characters of one character once percent-encoded
EncodedLen(ch) == IF ch \in {"a", "b", "c", "-"} THEN 1 ELSE 3

\* the encoded length of text[lo..hi], summed by halves
RECURSIVE EncodedSpan(_, _, _)
EncodedSpan(text, lo, hi) ==
    IF lo > hi THEN 0
    ELSE IF lo = hi THEN EncodedLen(text[lo])
    ELSE EncodedSpan(text, lo, (lo + hi) \div 2)
             + EncodedSpan(text, (lo + hi) \div 2 + 1, hi)

EncodedTextLen(text) == EncodedSpan(text, 1, Len(text))

\* url.length of the GET form
GetUrlLen(fromISO, toISO, text, token) ==
    FixedUrlLen + Len(Chars(fromISO)) + 2 * Len(Chars(toISO))
        + EncodedTextLen(text) + 2 + Len(token.name) + Len(token.value)

\* POST already at the limit
BuildRequestAtLimit(fromISO, toISO, text, token) ==
    LET n == GetUrlLen(fromISO, toISO, text, token)
    IN  IF n >= UrlLimit
        THEN [method |-> "POST", q |-> FALSE, body |-> TRUE, urlLen |-> n]
        ELSE [method |-> "GET", q |-> TRUE, body |-> FALSE, urlLen |-> n]

\* requestOptions: q says whether the URL carries the text, body whether
\* the form body does
BuildRequest(fromISO, toISO, text, token) ==
    LET n == GetUrlLen(fromISO, toISO, text, token)
    IN  IF n > UrlLimit
        THEN [method |-> "POST", q |-> FALSE, body |-> TRUE, urlLen |-> n]
        ELSE [method |-> "GET", q |-> TRUE, body |-> FALSE, urlLen |-> n]

\* token.value is not looked at
TokenFailedNoValue(token) ==
    \/ token.t = "error"
    \/ token.t = "null"
    \/ token.name = << >>

\* token instanceof Error || !token || !token.name || !token.value
TokenFailed(token) ==
    \/ token.t = "error"
    \/ token.t = "null"
    \/ token.name = << >>
    \/ token.value = << >>

\* response.statusCode && response.statusCode >= 400
StatusFailed(status) == status # 0 /\ status >= 400

----------------------------------------------------------------------------
(* loadLanguages: the synchronous part of a run of its loops *)

\* `${lang}-auto-${word}`
LoadKey(lang, word) ==
    Chars(lang) \o << "-", "a", "u", "t", "o", "-" >> \o word

LoadFrame(args) ==
    [op |-> "load", pc |-> "entry", args |-> args,
     langs |-> args.langs, words |-> args.words,
     li |-> 1, wi |-> 1, translations |-> << >>, key |-> << >>,
     ret |-> BlankResult, err |-> NoError]

\* Runs the loops from language li, word wi until the call returns, throws
\* or awaits a translate call.  fresh says that language li has not been
\* validated yet.
RECURSIVE LoadLoop(_, _, _, _, _, _)
LoadLoop(f, fresh, c, now, gets, sets) ==
    IF f.li > Len(f.langs)
    THEN [frames |-> << [f EXCEPT !.pc = "returned"] >>, cache |-> c,
          gets |-> gets, sets |-> sets, toks |-> 0]
    ELSE IF fresh /\ ~isSupported(f.langs[f.li])
    THEN [frames |-> << [f EXCEPT !.pc = "thrown",
                                  !.err = makeError(400, "not supported")] >>,
          cache |-> c, gets |-> gets, sets |-> sets, toks |-> 0]
    ELSE IF f.wi > Len(f.words)
    THEN LoadLoop([f EXCEPT !.li = @ + 1, !.wi = 1], TRUE, c, now, gets, sets)
    ELSE LET lang == f.langs[f.li]
             word == f.words[f.wi]
             key == LoadKey(lang, word)
             got == CacheGet(c, key, now)
         IN  IF got.hit
             THEN LoadLoop([f EXCEPT !.wi = @ + 1,
                                     !.translations = Append(@,
                                         [lang |-> lang, word |-> word,
                                          text |-> got.val.text])],
                           FALSE, got.cache, now, gets + 1, sets)
             ELSE LET sub == EnterTranslate(word,
                                 [from |-> Absent, to |-> lang, raw |-> Absent,
                                  maxChunkChars |-> << >>], got.cache, now)
                  IN  [frames |-> << [f EXCEPT !.pc = "await", !.key = key] >>
                                      \o sub.frames,
                       cache |-> sub.cache, gets |-> gets + 1 + sub.gets,
                       sets |-> sets, toks |-> sub.toks]

EnterLoad(args, c, now) ==
    IF ~args.langsArr \/ ~args.wordsArr
    THEN [frames |-> << [LoadFrame(args) EXCEPT !.pc = "thrown",
                            !.err = makeError(400, "Parameters must be arrays")] >>,
          cache |-> c, gets |-> 0, sets |-> 0, toks |-> 0]
    ELSE LoadLoop(LoadFrame(args), TRUE, c, now, 0, 0)

----------------------------------------------------------------------------
(* Inputs of the state machine *)

MaxCalls == 2                \* top-level calls per behaviour
MaxTicks == 1                \* clock advances per behaviour

Callers == {"c1", "c2"}
Main == "c1"                 \* the caller whose calls follow one another

TickSteps == {stdTTL - 1, stdTTL + 1}

Texts == { << "a" >>, << "a", " ", "b" >> }
FromOpts == {"en", "English", "xx"}
ToOpts == {Absent, "fr", "xx"}
RawOpts == {Absent, "true"}
ChunkOpts == { << >>, << 2 >> }

CallOpts ==
    [from : FromOpts, to : ToOpts, raw : RawOpts, maxChunkChars : ChunkOpts]

LoadArgs ==
    { [langsArr |-> TRUE, langs |-> << "fr" >>,
       wordsArr |-> TRUE, words |-> << << "a" >> >>],
      [langsArr |-> TRUE, langs |-> << "fr", "xx" >>,
       wordsArr |-> TRUE, words |-> << << "a" >> >>],
      [langsArr |-> FALSE, langs |-> << >>,
       wordsArr |-> TRUE, words |-> << >>] }

Tokens ==
    { [t |-> "object", name |-> << "t", "k" >>, value |-> << "1" >>],
      [t |-> "object", name |-> << >>, value |-> << "1" >>],
      [t |-> "object", name |-> << "t", "k" >>, value |-> << >>],
      [t |-> "error", name |-> << >>, value |-> << >>],
      [t |-> "null", name |-> << >>, value |-> << >>] }

Statuses == {200, 429}

NoSuggestion ==
    [arr |-> FALSE, first |-> [t |-> "missing", s |-> << >>], five |-> "other"]

Body(isArr, segs, p2, p8, p7) ==
    [isArr |-> isArr, b0Arr |-> isArr, segs |-> segs, p2 |-> p2, p8 |-> p8,
     p7 |-> p7]

\* the payloads the Transport answers with in the state machine
Payloads ==
    { Body(TRUE, << << "x" >> >>, "en", JsUndefined, NoSuggestion),
      Body(TRUE, << << "y" >>, << >> >>, JsNull, "fr",
           [arr |-> TRUE,
            first |-> [t |-> "string", s |-> << "<b><i>", "a", "</i></b>" >>],
            five |-> "true"]),
      Body(FALSE, << >>, "", JsUndefined,
           [arr |-> TRUE, first |-> [t |-> "string", s |-> << "a" >>],
            five |-> "other"]),
      Body(TRUE, << << "z" >> >>, JsUndefined, JsUndefined,
           [arr |-> TRUE, first |-> [t |-> "number", s |-> << >>],
            five |-> "other"]) }

----------------------------------------------------------------------------
(* The state machine *)

\* the call was answered from the cache (line 44)
ServedFromCache(f) ==
    f.pc = "returned" /\ f.token = NoToken /\ f.chunks = << >>

\* hist after translate call f has settled
Recorded(h, f) ==
    IF f.op = "translate" /\ f.pc = "returned"
          /\ (ServedFromCache(f) => f.prior # << >>)
    THEN [k \in DOMAIN h \cup {f.key} |->
             IF k = f.key
             THEN [res |-> f.ret, at |-> f.at,
                   wat |-> IF ServedFromCache(f) THEN f.prior[1].wat ELSE f.at]
             ELSE h[k]]
    ELSE h

\* the frames of calls just made, each with what hist holds under its key
WithPrior(frames, h) ==
    [i \in 1..Len(frames) |->
        IF frames[i].op = "translate" /\ frames[i].key \in DOMAIN h
        THEN [frames[i] EXCEPT !.prior = << h[frames[i].key] >>]
        ELSE frames[i]]

\* what a translate call computes its result for
Triple(f) == [from |-> f.fromISO, to |-> f.toISO, text |-> f.text]

\* wrote after a value computed for triple t is stored under key
Written(w, key, t) ==
    [k \in DOMAIN w \cup {key} |-> IF k = key THEN t ELSE w[k]]

\* a failed call taken for one that returned
RejectedNever(child) == FALSE

\* an awaited call that threw makes the await throw (lines 78 and 232)
Rejected(child) == child.pc = "thrown"

Top(p) == stack[p][Len(stack[p])]
Pop(st) == SubSeq(st, 1, Len(st) - 1)
SetTop(st, f) == [st EXCEPT ![Len(st)] = f]
Bump(n, p, d) == [n EXCEPT ![p] = @ + d]

\* a caller calls translate(text, opts); the call runs up to its first await
Call(p, text, opts, maxCalls) ==
    /\ stack[p] = << >>
    /\ calls < maxCalls
    /\ LET e == EnterTranslate(text, opts, cache, clock)
       IN  /\ stack' = [stack EXCEPT ![p] = WithPrior(e.frames, hist)]
           /\ cache' = e.cache
           /\ nGet' = [nGet EXCEPT ![p] = e.gets]
           /\ nTok' = [nTok EXCEPT ![p] = e.toks]
    /\ nTr' = [nTr EXCEPT ![p] = 0]
    /\ nSet' = [nSet EXCEPT ![p] = 0]
    /\ calls' = calls + 1
    /\ UNCHANGED << clock, ticks, hist, wrote, chunkVars, parseVars, loaderVars >>

\* a caller calls loadLanguages(languagesToLoad, wordsToLoad)
CallLoad(p, args, maxCalls) ==
    /\ stack[p] = << >>
    /\ calls < maxCalls
    /\ LET e == EnterLoad(args, cache, clock)
       IN  /\ stack' = [stack EXCEPT ![p] = WithPrior(e.frames, hist)]
           /\ cache' = e.cache
           /\ nGet' = [nGet EXCEPT ![p] = e.gets]
           /\ nSet' = [nSet EXCEPT ![p] = e.sets]
           /\ nTok' = [nTok EXCEPT ![p] = e.toks]
    /\ nTr' = [nTr EXCEPT ![p] = 0]
    /\ calls' = calls + 1
    /\ UNCHANGED << clock, ticks, hist, wrote, chunkVars, parseVars, loaderVars >>

\* tokenGenerator.generate(text) resolves; a good token sends the request
TokenReturn(p, token) ==
    /\ stack[p] # << >>
    /\ Top(p).op = "translate"
    /\ Top(p).pc = "token"
    /\ LET f == Top(p)
       IN  IF TokenFailed(token)
           THEN /\ stack' = [stack EXCEPT ![p] = SetTop(@,
                       [f EXCEPT !.pc = "thrown", !.token = token,
                                 !.err = makeError(503, "token")])]
                /\ nTr' = nTr
           ELSE /\ stack' = [stack EXCEPT ![p] = SetTop(@,
                       [f EXCEPT !.pc = "transport", !.token = token,
                                 !.req = BuildRequest(f.fromISO, f.toISO,
                                                      f.text, token)])]
                /\ nTr' = Bump(nTr, p, 1)
    /\ UNCHANGED << cache, clock, ticks, calls, nTok, nGet, nSet, hist, wrote, chunkVars, parseVars, loaderVars >>

\* request(...) rejects (threw) or resolves with a status code
TransportReturn(p, threw, status) ==
    /\ stack[p] # << >>
    /\ Top(p).op = "translate"
    /\ Top(p).pc = "transport"
    /\ LET f == Top(p)
           g == IF threw
                THEN [f EXCEPT !.pc = "thrown", !.err = makeError(503, "request")]
                ELSE IF StatusFailed(status)
                THEN [f EXCEPT !.pc = "thrown", !.err = makeError(status, "status")]
                ELSE [f EXCEPT !.pc = "json"]
       IN  stack' = [stack EXCEPT ![p] = SetTop(@, g)]
    /\ UNCHANGED << cache, clock, ticks, calls, nTok, nTr, nGet, nSet, hist, wrote, chunkVars, parseVars, loaderVars >>

\* lines 153-204 for a decoded body: parse, cache.set, return
Finish(p, body) ==
    LET f == Top(p)
        pr == ParseBody(body, f.fromISO, f.raw)
    IN  IF pr.ok
        THEN /\ stack' = [stack EXCEPT ![p] = SetTop(@,
                    [f EXCEPT !.pc = "returned", !.ret = pr.res,
                              !.src = << body >>])]
             /\ cache' = CacheSet(cache, f.key, pr.res, clock)
             /\ wrote' = Written(wrote, f.key, Triple(f))
             /\ nSet' = Bump(nSet, p, 1)
        ELSE /\ stack' = [stack EXCEPT ![p] = SetTop(@,
                    [f EXCEPT !.pc = "thrown", !.err = pr.err])]
             /\ UNCHANGED << cache, nSet, wrote >>

\* response.body.json() resolves with a body or rejects
JsonReturn(p, ok, body) ==
    /\ stack[p] # << >>
    /\ Top(p).op = "translate"
    /\ Top(p).pc = "json"
    /\ IF ok
       THEN Finish(p, body)
       ELSE /\ stack' = [stack EXCEPT ![p] = SetTop(@,
                   [Top(p) EXCEPT !.pc = "text", !.fallback = "pending"])]
            /\ UNCHANGED << cache, nSet, wrote >>
    /\ UNCHANGED << clock, ticks, calls, nTok, nTr, nGet, hist,
                    chunkVars, parseVars, loaderVars >>

\* response.body.text() rejects (outside the inner try), or resolves with
\* a text that JSON.parse accepts (as body) or rejects
TextReturn(p, how, body) ==
    /\ stack[p] # << >>
    /\ Top(p).op = "translate"
    /\ Top(p).pc = "text"
    /\ CASE how = "rejects" ->
              /\ stack' = [stack EXCEPT ![p] = SetTop(@,
                     [Top(p) EXCEPT !.pc = "thrown", !.fallback = "failed",
                                    !.err = makeError(NoCode, "body unusable")])]
              /\ UNCHANGED << cache, nSet, wrote >>
         [] how = "invalid" ->
              /\ stack' = [stack EXCEPT ![p] = SetTop(@,
                     [Top(p) EXCEPT !.pc = "thrown", !.fallback = "failed",
                                    !.err = makeError(502, "format")])]
              /\ UNCHANGED << cache, nSet, wrote >>
         [] OTHER -> Finish(p, body)
    /\ UNCHANGED << clock, ticks, calls, nTok, nTr, nGet, hist,
                    chunkVars, parseVars, loaderVars >>


\* the await of a chunk's translation in the loop of lines 77-82 resumes
ResumeChunks(p) ==
    /\ Len(stack[p]) >= 2
    /\ Top(p).pc \in {"returned", "thrown"}
    /\ stack[p][Len(stack[p]) - 1].op = "translate"
    /\ LET child == Top(p)
           f == stack[p][Len(stack[p]) - 1]
           below == Pop(Pop(stack[p]))
           m == MergeChunk(f.merged, child.ret, f.i, f.raw)
           g == [f EXCEPT !.merged = m, !.rs = Append(@, child.ret), !.i = @ + 1]
           sub == EnterTranslate(f.chunks[f.i + 1], ChunkOptions(g), cache, clock)
       IN  IF Rejected(child)
           THEN /\ stack' = [stack EXCEPT ![p] = Append(below,
                       [f EXCEPT !.pc = "thrown", !.err = child.err])]
                /\ UNCHANGED << cache, nGet, nSet, nTok, wrote >>
           ELSE IF f.i < Len(f.chunks)
           THEN /\ stack' = [stack EXCEPT ![p] =
                       Append(below, g) \o WithPrior(sub.frames, Recorded(hist, Top(p)))]
                /\ cache' = sub.cache
                /\ nGet' = Bump(nGet, p, sub.gets)
                /\ nTok' = Bump(nTok, p, sub.toks)
                /\ nSet' = nSet
                /\ wrote' = wrote
           ELSE /\ stack' = [stack EXCEPT ![p] = Append(below,
                       [g EXCEPT !.pc = "returned", !.ret = m])]
                /\ cache' = CacheSet(cache, f.key, m, clock)
                /\ wrote' = Written(wrote, f.key, Triple(f))
                /\ nSet' = Bump(nSet, p, 1)
                /\ UNCHANGED << nGet, nTok >>
    /\ hist' = Recorded(hist, Top(p))
    /\ UNCHANGED << clock, ticks, calls, nTr, chunkVars, parseVars, loaderVars >>

\* the await of translate(word, { to: lang }) in loadLanguages resumes
ResumeLoad(p) ==
    /\ Len(stack[p]) >= 2
    /\ Top(p).pc \in {"returned", "thrown"}
    /\ stack[p][Len(stack[p]) - 1].op = "load"
    /\ LET child == Top(p)
           f == stack[p][Len(stack[p]) - 1]
           below == Pop(Pop(stack[p]))
           g == [f EXCEPT !.wi = @ + 1,
                          !.translations = Append(@,
                              [lang |-> f.langs[f.li], word |-> f.words[f.wi],
                               text |-> child.ret.text])]
           e == LoadLoop(g, FALSE, CacheSet(cache, f.key, child.ret, clock),
                         clock, 0, 1)
       IN  IF Rejected(child)
           THEN /\ stack' = [stack EXCEPT ![p] = Append(below,
                       [f EXCEPT !.pc = "thrown", !.err = child.err])]
                /\ UNCHANGED << cache, nGet, nSet, nTok, wrote >>
           ELSE /\ stack' = [stack EXCEPT ![p] =
                       below \o WithPrior(e.frames, Recorded(hist, Top(p)))]
                /\ cache' = e.cache
                /\ nGet' = Bump(nGet, p, e.gets)
                /\ nSet' = Bump(nSet, p, e.sets)
                /\ nTok' = Bump(nTok, p, e.toks)
                /\ wrote' = Written(wrote, f.key, wrote[child.key])
    /\ hist' = Recorded(hist, Top(p))
    /\ UNCHANGED << clock, ticks, calls, nTr, chunkVars, parseVars, loaderVars >>

\* the promise of a top-level call settles: the caller has its result or error
Return(p) ==
    /\ Len(stack[p]) = 1
    /\ Top(p).pc \in {"returned", "thrown"}
    /\ hist' = Recorded(hist, Top(p))
    /\ stack' = [stack EXCEPT ![p] = << >>]
    /\ nTok' = [nTok EXCEPT ![p] = 0]
    /\ nTr' = [nTr EXCEPT ![p] = 0]
    /\ nGet' = [nGet EXCEPT ![p] = 0]
    /\ nSet' = [nSet EXCEPT ![p] = 0]
    /\ UNCHANGED << cache, clock, ticks, calls, wrote, chunkVars, parseVars,
                    loaderVars >>

\* time passes
Tick(d, maxTicks) ==
    /\ ticks < maxTicks
    /\ clock' = clock + d
    /\ ticks' = ticks + 1
    /\ UNCHANGED << stack, cache, calls, nTok, nTr, nGet, nSet, hist, wrote,
                    chunkVars, parseVars, loaderVars >>

EmptyMap == [k \in {} |-> 0]

InitMain ==
    /\ stack = [p \in Callers |-> << >>]
    /\ cache = EmptyMap
    /\ clock = 0
    /\ ticks = 0
    /\ calls = 0
    /\ nTok = [p \in Callers |-> 0]
    /\ nTr = [p \in Callers |-> 0]
    /\ nGet = [p \in Callers |-> 0]
    /\ nSet = [p \in Callers |-> 0]
    /\ hist = EmptyMap
    /\ wrote = EmptyMap

InitChunkIdle ==
    /\ cStr = << >>
    /\ cLimit = 1
    /\ cParts = << >>
    /\ cPc = "off"

InitParseIdle ==
    /\ pBody = Body(FALSE, << >>, JsUndefined, JsUndefined, NoSuggestion)
    /\ pFrom = "auto"
    /\ pRaw = FALSE
    /\ pOut = ParseBody(pBody, pFrom, pRaw)
    /\ pPc = "off"

InitLoaderIdle ==
    /\ files = EmptyMap
    /\ commands = EmptyMap
    /\ ldOpts = [client |-> FALSE, watch |-> FALSE, include |-> << >>,
                 exclude |-> << >>]
    /\ ldPc = "off"
    /\ ldPaths = << >>
    /\ ldLoaded = 0
    /\ reloads = << >>
    /\ events = 0

Init == InitMain /\ InitChunkIdle /\ InitParseIdle /\ InitLoaderIdle

Next ==
    \/ \E text \in Texts, opts \in CallOpts : Call(Main, text, opts, MaxCalls)
    \/ \E args \in LoadArgs : CallLoad(Main, args, MaxCalls)
    \/ \E token \in Tokens : TokenReturn(Main, token)
    \/ \E threw \in BOOLEAN, status \in Statuses : TransportReturn(Main, threw, status)
    \/ \E ok \in BOOLEAN, body \in Payloads : JsonReturn(Main, ok, body)
    \/ \E how \in {"rejects", "invalid", "valid"}, body \in Payloads :
          TextReturn(Main, how, body)
    \/ ResumeChunks(Main)
    \/ ResumeLoad(Main)
    \/ Return(Main)
    \/ \E d \in TickSteps : Tick(d, MaxTicks)

Spec == Init /\ [][Next]_vars

----------------------------------------------------------------------------
(* The cache over longer runs: more calls and more time, fewer options *)

MaxCacheCalls == 3           \* top-level calls per behaviour
MaxCacheTicks == 2           \* clock advances per behaviour

CacheCallOpts ==
    [from : {"en", "English"}, to : {Absent}, raw : {Absent},
     maxChunkChars : ChunkOpts]

CachePayloads ==
    { Body(TRUE, << << "x" >> >>, "en", JsUndefined, NoSuggestion),
      Body(TRUE, << << "y" >> >>, JsNull, "fr", NoSuggestion) }

NextCache ==
    \/ \E text \in Texts, opts \in CacheCallOpts :
          Call(Main, text, opts, MaxCacheCalls)
    \/ \E token \in {t \in Tokens : t.t \in {"object", "error"} /\ t.value # << >>} :
          TokenReturn(Main, token)
    \/ \E threw \in BOOLEAN : TransportReturn(Main, threw, 200)
    \/ \E ok \in BOOLEAN, body \in CachePayloads : JsonReturn(Main, ok, body)
    \/ TextReturn(Main, "rejects", CHOOSE body \in CachePayloads : TRUE)
    \/ ResumeChunks(Main)
    \/ Return(Main)
    \/ \E d \in TickSteps : Tick(d, MaxCacheTicks)

SpecCache == Init /\ [][NextCache]_vars

----------------------------------------------------------------------------
(* The Chunk Engine on its own: chunkText applied to every short text *)

MaxLen == 5                  \* longest text given to chunkText
MaxLimit == 3                \* largest limit given to chunkText

ChunkAlphabet == {"a", "b", " "}

TextsUpTo(n) == UNION { [1..k -> ChunkAlphabet] : k \in 0..n }

InitChunk ==
    /\ InitMain
    /\ InitParseIdle
    /\ InitLoaderIdle
    /\ cStr \in TextsUpTo(MaxLen)
    /\ cLimit \in 1..MaxLimit
    /\ cParts = << >>
    /\ cPc = "in"

ChunkCall ==
    /\ cPc = "in"
    /\ cParts' = chunkText(cStr, cLimit)
    /\ cPc' = "out"
    /\ UNCHANGED << cStr, cLimit, mainVars, parseVars, loaderVars >>

\* a second call on the chunk just returned, as the recursive translate makes
ChunkAgain ==
    /\ cPc = "out"
    /\ \E i \in 1..Len(cParts) :
          /\ cStr' = cParts[i]
          /\ cParts' = chunkText(cParts[i], cLimit)
    /\ cPc' = "again"
    /\ UNCHANGED << cLimit, mainVars, parseVars, loaderVars >>

NextChunk == ChunkCall \/ ChunkAgain

SpecChunk == InitChunk /\ [][NextChunk]_vars

----------------------------------------------------------------------------
(* The Response Parser on its own: lines 153-201 applied to every payload *)

DetectedValues == {JsUndefined, JsNull, "", "en", "fr"}

SegmentLists == { << >>, << << "x" >> >>, << << "x" >>, << >>, << "y" >> >> }

Suggestions ==
    [arr : BOOLEAN,
     first : { [t |-> "missing", s |-> << >>],
               [t |-> "string", s |-> << >>],
               [t |-> "string", s |-> << "<b><i>", "a", "</i></b>", "b" >>],
               [t |-> "number", s |-> << >>] },
     five : {"true", "other"}]

AllBodies ==
    [isArr : BOOLEAN, b0Arr : BOOLEAN, segs : SegmentLists,
     p2 : DetectedValues, p8 : DetectedValues, p7 : Suggestions]

InitParse ==
    /\ InitMain
    /\ InitChunkIdle
    /\ InitLoaderIdle
    /\ pBody \in AllBodies
    /\ pFrom \in {"auto", "en", JsFalse}
    /\ pRaw \in BOOLEAN
    /\ pOut = ParseBody(Body(FALSE, << >>, JsUndefined, JsUndefined, NoSuggestion),
                        "auto", FALSE)
    /\ pPc = "in"

ParseCall ==
    /\ pPc = "in"
    /\ pOut' = ParseBody(pBody, pFrom, pRaw)
    /\ pPc' = "out"
    /\ UNCHANGED << pBody, pFrom, pRaw, mainVars, chunkVars, loaderVars >>

NextParse == ParseCall

SpecParse == InitParse /\ [][NextParse]_vars

----------------------------------------------------------------------------
(* The Request Builder at the URL limit: texts that fill the GET URL *)

MaxRequestCalls == 2         \* top-level calls per behaviour
MaxSpaces == 620             \* spaces (three characters each once encoded)
                             \* at the head of the long texts

Spaces(n) == [i \in 1..n |-> " "]

\* with from "en", to "fr" and a three-character token pair the first gives
\* a URL of 2048 characters and the second one of 2049
LongTexts == { Spaces(MaxSpaces) \o << "a" >>, Spaces(MaxSpaces) \o << "a", "a" >> }

RequestCallOpts ==
    [from : {"en", Absent}, to : {Absent}, raw : {Absent},
     maxChunkChars : { << >> }]

RequestTokens ==
    { [t |-> "object", name |-> << "t", "k" >>, value |-> << "1" >>],
      [t |-> "object", name |-> << "t", "k" >>, value |-> << "1", "2" >>],
      [t |-> "error", name |-> << >>, value |-> << >>] }

NextRequest ==
    \/ \E text \in LongTexts, opts \in RequestCallOpts :
          Call(Main, text, opts, MaxRequestCalls)
    \/ \E token \in RequestTokens : TokenReturn(Main, token)
    \/ \E threw \in BOOLEAN, status \in Statuses :
          TransportReturn(Main, threw, status)
    \/ \E ok \in BOOLEAN, body \in CachePayloads : JsonReturn(Main, ok, body)
    \/ \E how \in {"rejects", "invalid", "valid"}, body \in CachePayloads :
          TextReturn(Main, how, body)
    \/ Return(Main)

SpecRequest == Init /\ [][NextRequest]_vars

----------------------------------------------------------------------------
(* Overlapping calls: two callers whose calls interleave at the awaits *)

MaxOverlapCalls == 2         \* top-level calls per behaviour

NextOverlap ==
    \E p \in Callers :
        \/ \E text \in Texts, opts \in CacheCallOpts :
              Call(p, text, opts, MaxOverlapCalls)
        \/ \E token \in {t \in Tokens : t.t \in {"object", "error"} /\ t.value # << >>} :
              TokenReturn(p, token)
        \/ \E threw \in BOOLEAN : TransportReturn(p, threw, 200)
        \/ \E body \in CachePayloads : JsonReturn(p, TRUE, body)
        \/ ResumeChunks(p)
        \/ Return(p)

SpecOverlap == Init /\ [][NextOverlap]_vars

----------------------------------------------------------------------------
(* Keys: from and to at the edge of the Language Table, and loadLanguages *)

MaxKeyCalls == 2             \* top-level calls per behaviour

KeyCallOpts ==
    [from : {"en", "fr", "", JsUndefined}, to : {Absent, "auto", ""},
     raw : {Absent}, maxChunkChars : { << >> }]

KeyLoadArgs ==
    { [langsArr |-> TRUE, langs |-> << "fr" >>,
       wordsArr |-> TRUE, words |-> << << "a" >> >>] }

NextKeys ==
    \/ \E opts \in KeyCallOpts : Call(Main, << "a" >>, opts, MaxKeyCalls)
    \/ \E args \in KeyLoadArgs : CallLoad(Main, args, MaxKeyCalls)
    \/ \E token \in {t \in Tokens : t.t \in {"object", "error"} /\ t.value # << >>} :
          TokenReturn(Main, token)
    \/ \E threw \in BOOLEAN : TransportReturn(Main, threw, 200)
    \/ \E body \in CachePayloads : JsonReturn(Main, TRUE, body)
    \/ ResumeLoad(Main)
    \/ Return(Main)

SpecKeys == Init /\ [][NextKeys]_vars

----------------------------------------------------------------------------
(* Chunked calls over every short text, the services always answering *)

MaxDepthCalls == 1           \* top-level calls per behaviour
MaxDepthLen == 4             \* longest text

DepthTexts == UNION { [1..k -> {"a", " "}] : k \in 1..MaxDepthLen }

DepthCallOpts ==
    [from : {"en"}, to : {Absent}, raw : {Absent},
     maxChunkChars : { << 1 >>, << 2 >> }]

NextDepth ==
    \/ \E text \in DepthTexts, opts \in DepthCallOpts :
          Call(Main, text, opts, MaxDepthCalls)
    \/ \E token \in {t \in Tokens : t.t \in {"object", "error"} /\ t.value # << >>} :
          TokenReturn(Main, token)
    \/ \E threw \in BOOLEAN : TransportReturn(Main, threw, 200)
    \/ \E body \in CachePayloads : JsonReturn(Main, TRUE, body)
    \/ ResumeChunks(Main)
    \/ Return(Main)

\* every await of a call is answered in the end
SpecDepth == Init /\ [][NextDepth]_vars /\ WF_vars(NextDepth)

----------------------------------------------------------------------------
(* The command loader (src/unnamed/part_000): initial load and watch mode *)

MaxEvents == 2               \* file-change events per behaviour

\* a path by what the code tests of it: its extension
Path(base, ext) == [base |-> base, ext |-> ext]

\* buildPaths(absoluteBase, directoryTree)
AllPaths == << Path("a", "js"), Path("b", "mjs"), Path("c", "txt") >>

\* /\.(cjs|mjs|js)$/.test(p)
IsScript(p) == p.ext \in {"cjs", "mjs", "js"}

\* a glob list as the set of extensions its patterns match; given says
\* whether the option is there at all
NoGlobs == [given |-> FALSE, exts |-> {}]
Globs(exts) == [given |-> TRUE, exts |-> exts]

\* matchesGlob(p, patterns) with minimatch installed
matchesGlob(p, patterns) == patterns.exts = {} \/ p.ext \in patterns.exts

\* the name property of an exported command: its type and its value
Name(t, v) == [t |-> t, v |-> v]
NoName == Name("undefined", "")

\* what loadModule(p) gives: kind is "object", "null" (a falsy export) or
\* "throws"
Export(kind, name) == [kind |-> kind, name |-> name]

Exports ==
    { Export("object", Name("string", "ping")),
      Export("object", Name("string", "")),
      Export("object", Name("number", "42")),
      Export("object", NoName),
      Export("null", NoName),
      Export("throws", NoName) }

\* ToBoolean(cmd.name)
NameTruthy(name) ==
    \/ name.t = "string" /\ name.v # ""
    \/ name.t = "number" /\ name.v # "0"

\* line 115 negated: command && typeof command.name === 'string' &&
\* command.name.length !== 0
ValidName(command) ==
    /\ command.kind = "object"
    /\ command.name.t = "string"
    /\ command.name.v # ""

\* line 143: cmd && cmd.name
ReloadAccepts(cmd) == cmd.kind = "object" /\ NameTruthy(cmd.name)

\* client.commands.set(name, command)
CommandsSet(cmds, name, command) ==
    [n \in DOMAIN cmds \cup {name} |-> IF n = name THEN command ELSE cmds[n]]

\* lines 102-109: the paths the initial loop goes over
FilterPaths(opts) ==
    LET scripts == SelectSeq(AllPaths, IsScript)
        inc == IF opts.include.given
               THEN SelectSeq(scripts, LAMBDA q : matchesGlob(q, opts.include))
               ELSE scripts
    IN  IF opts.exclude.given
        THEN SelectSeq(inc, LAMBDA q : ~matchesGlob(q, opts.exclude))
        ELSE inc

\* lines 132-156: after the loop the watcher is installed if asked for
AfterLoop(opts) == IF opts.watch THEN "watching" ELSE "done"

\* loader(client, basePath, silent, options) up to the first await
LoaderCall ==
    /\ ldPc = "start"
    /\ ldPaths' = FilterPaths(ldOpts)
    /\ ldPc' = IF FilterPaths(ldOpts) = << >> THEN AfterLoop(ldOpts) ELSE "loop"
    /\ UNCHANGED << files, commands, ldOpts, ldLoaded, reloads, events,
                    mainVars, chunkVars, parseVars >>

\* one round of the loop of lines 112-124
LoaderStep ==
    /\ ldPc = "loop"
    /\ LET q == Head(ldPaths)
           command == files[q]
       IN  /\ commands' = IF command.kind # "throws" /\ ValidName(command)
                             /\ ldOpts.client
                          THEN CommandsSet(commands, command.name, command)
                          ELSE commands
           /\ ldLoaded' = IF command.kind # "throws" THEN ldLoaded + 1
                          ELSE ldLoaded
    /\ ldPaths' = Tail(ldPaths)
    /\ ldPc' = IF Tail(ldPaths) = << >> THEN AfterLoop(ldOpts) ELSE "loop"
    /\ UNCHANGED << files, ldOpts, reloads, events, mainVars, chunkVars,
                    parseVars >>

\* lines 134-138: the watch callback goes on to load the file
WatchPasses(q, opts) ==
    /\ IsScript(q)
    /\ ~(opts.include.given /\ ~matchesGlob(q, opts.include))
    /\ ~(opts.exclude.given /\ matchesGlob(q, opts.exclude))

\* the file at q changes to export `export`; the watch callback runs up to
\* its await of loadModule(full)
FileChange(q, export) ==
    /\ ldPc = "watching"
    /\ events < MaxEvents
    /\ events' = events + 1
    /\ files' = [files EXCEPT ![q] = export]
    /\ reloads' = IF WatchPasses(q, ldOpts) /\ export.kind # "throws"
                  THEN Append(reloads, export)
                  ELSE reloads
    /\ UNCHANGED << commands, ldOpts, ldPc, ldPaths, ldLoaded, mainVars,
                    chunkVars, parseVars >>

\* a watch event that carries no filename (line 134)
NamelessEvent ==
    /\ ldPc = "watching"
    /\ events < MaxEvents
    /\ events' = events + 1
    /\ UNCHANGED << files, commands, ldOpts, ldPc, ldPaths, ldLoaded, reloads,
                    mainVars, chunkVars, parseVars >>

\* lines 143-148: the watch callback resumes with the module it loaded
WatchResume ==
    /\ reloads # << >>
    /\ LET cmd == Head(reloads)
       IN  commands' = IF ReloadAccepts(cmd) /\ ldOpts.client
                       THEN CommandsSet(commands, cmd.name, cmd)
                       ELSE commands
    /\ reloads' = Tail(reloads)
    /\ UNCHANGED << files, ldOpts, ldPc, ldPaths, ldLoaded, events, mainVars,
                    chunkVars, parseVars >>

LoaderOptions ==
    [client : BOOLEAN, watch : BOOLEAN,
     include : {NoGlobs, Globs({"js", "mjs"})},
     exclude : {NoGlobs, Globs({"mjs"})}]

InitLoader ==
    /\ InitMain
    /\ InitChunkIdle
    /\ InitParseIdle
    /\ files \in [{AllPaths[i] : i \in 1..Len(AllPaths)} -> Exports]
    /\ commands = EmptyMap
    /\ ldOpts \in LoaderOptions
    /\ ldPc = "start"
    /\ ldPaths = << >>
    /\ ldLoaded = 0
    /\ reloads = << >>
    /\ events = 0

NextLoader ==
    \/ LoaderCall
    \/ LoaderStep
    \/ \E i \in 1..Len(AllPaths), export \in Exports :
          FileChange(AllPaths[i], export)
    \/ NamelessEvent
    \/ WatchResume

SpecLoader == InitLoader /\ [][NextLoader]_vars

----------------------------------------------------------------------------
(* Properties *)

Frames(p) == { stack[p][i] : i \in 1..Len(stack[p]) }

\* the top-level call of caller p has run to its end
Settled(p) ==
    /\ Len(stack[p]) = 1
    /\ stack[p][1].pc \in {"returned", "thrown"}

\* what C1 promises of a call f when it applies
C1_Hit(p, f) ==
    /\ f.pc = "returned"
    /\ f.ret = f.prior[1].res
    /\ f.token = NoToken
    /\ f.req = NoRequest
    /\ f.chunks = << >>
    /\ (f = stack[p][1] => Settled(p) /\ nTok[p] = 0 /\ nTr[p] = 0)

\* C1 as stated: a translate call made less than 86400 s after a successful
\* call with the same normalised from, to and text returns that call's
\* result and makes no Token Provider and no Transport call.
C1_Original ==
    \A p \in Callers :
        \A f \in Frames(p) :
            ( /\ f.op = "translate"
              /\ f.prior # << >>
              /\ f.at - f.prior[1].at < 86400 )
            => C1_Hit(p, f)

\* C1 amended: a translate call returns the result of the last successful
\* call with the same normalised from, to and text, and makes no Token
\* Provider and no Transport call, when it is made less than 86400 s after
\* the call that computed that result (that last call itself, or the earlier
\* call whose cached result it returned), whether the result came from one
\* request or was merged from chunks.
C1_CacheIdempotence ==
    \A p \in Callers :
        \A f \in Frames(p) :
            ( /\ f.op = "translate"
              /\ f.prior # << >>
              /\ f.at - f.prior[1].wat < 86400 )
            => C1_Hit(p, f)

\* C1 witness: a result merged from two chunks served again 86399 s after
\* the call that computed it
C1_Witness ==
    \E p \in Callers :
        /\ Settled(p)
        /\ stack[p][1].op = "translate"
        /\ stack[p][1].pc = "returned"
        /\ stack[p][1].prior # << >>
        /\ stack[p][1].at - stack[p][1].prior[1].wat = 86399
        /\ stack[p][1].ret.text \in { << "x", "y" >>, << "y", "x" >> }
        /\ nTok[p] = 0

\* a non-empty from or to was given and the Language Table rejects it
C2_Unsupported(opts) ==
    \E lang \in {opts.from, opts.to} :
        /\ lang \notin {Absent, JsUndefined, ""}
        /\ ~isSupported(lang)

\* C2: a translate call whose from or to the Language Table reports
\* unsupported fails with code 400 and has made no cache read or write, no
\* Token Provider call and no Transport call.
C2_ValidationFirst ==
    \A p \in Callers :
        stack[p] # << >> =>
            LET f == stack[p][1]
            IN  (f.op = "translate" /\ C2_Unsupported(f.opts))
                => /\ Settled(p)
                   /\ f.pc = "thrown"
                   /\ f.err.code = 400
                   /\ nGet[p] = 0
                   /\ nSet[p] = 0
                   /\ nTok[p] = 0
                   /\ nTr[p] = 0

\* C2 witness: an unsupported `to` rejected although the cache holds entries
C2_Witness ==
    \E p \in Callers :
        /\ Settled(p)
        /\ stack[p][1].op = "translate"
        /\ stack[p][1].opts.to = "xx"
        /\ stack[p][1].opts.from = "en"
        /\ stack[p][1].err.code = 400
        /\ DOMAIN cache # {}

\* C3 as stated: for every text and limit >= 1 the chunks are non-empty,
\* their concatenation is the text, and a text no longer than the limit is
\* the single chunk.
C3_Original ==
    cPc \in {"out", "again"} =>
        /\ \A i \in 1..Len(cParts) : cParts[i] # << >>
        /\ Concat(cParts) = cStr
        /\ (Len(cStr) <= cLimit => cParts = << cStr >>)

\* C3 amended: the concatenation of the chunks is the text and a text no
\* longer than the limit is the single chunk, for every text; the chunks
\* are non-empty for every non-empty text (the empty text is the single
\* empty chunk).
C3_ChunkReconstruction ==
    cPc \in {"out", "again"} =>
        /\ Concat(cParts) = cStr
        /\ (Len(cStr) <= cLimit => cParts = << cStr >>)
        /\ (cStr # << >> => \A i \in 1..Len(cParts) : cParts[i] # << >>)
        /\ (cStr = << >> => cParts = << << >> >>)

\* C3 witness: a text with whitespace split into three chunks or more
C3_Witness ==
    /\ cPc = "out"
    /\ Len(cParts) >= 3
    /\ \E i \in 1..Len(cStr) : cStr[i] = " "
    /\ \E i \in 1..Len(cParts) : Len(cParts[i]) > 1

\* C4 as stated: every chunk is at most limit characters long.
C4_ChunksWithinLimit ==
    cPc \in {"out", "again"} =>
        \A i \in 1..Len(cParts) : Len(cParts[i]) <= cLimit

\* C5 as stated: the result of a translate call has a non-empty raw exactly
\* when the call was made with raw: true.
C5_RawIffRequested ==
    \A p \in Callers :
        ( /\ Settled(p)
          /\ stack[p][1].op = "translate"
          /\ stack[p][1].pc = "returned" )
        => (stack[p][1].opts.raw = "true" <=> stack[p][1].ret.raw.k # "empty")

\* C6 as stated: when the body is not JSON and the one fallback attempt
\* (read as text, parse as JSON) fails too, the call fails with code 502
\* and nothing is written to the cache.
C6_FormatFailure ==
    \A p \in Callers :
        \A f \in Frames(p) :
            (f.op = "translate" /\ f.fallback = "failed")
            => /\ f.pc = "thrown"
               /\ f.err.code = 502
               /\ f.key \notin DOMAIN cache

\* the token is an Error, or lacks a non-empty name or a non-empty value
C7_BadToken(token) ==
    \/ token.t \in {"error", "null"}
    \/ token.name = << >>
    \/ token.value = << >>

\* C7: when the Token Provider's result is an Error or lacks a non-empty
\* name or value, the call fails with code 503, its Transport request is
\* never made and nothing is written under its key.
C7_TokenFailure ==
    \A p \in Callers :
        \A f \in Frames(p) :
            (f.op = "translate" /\ f.token # NoToken /\ C7_BadToken(f.token))
            => /\ f.pc = "thrown"
               /\ f.err.code = 503
               /\ f.req = NoRequest
               /\ f.key \notin DOMAIN cache
               /\ (Len(stack[p]) = 1 => nTr[p] = 0 /\ nSet[p] = 0)

\* C7 witness: a token with a name and an empty value has failed the call
C7_Witness ==
    \E p \in Callers :
        /\ Settled(p)
        /\ stack[p][1].op = "translate"
        /\ stack[p][1].token.t = "object"
        /\ stack[p][1].token.name # << >>
        /\ stack[p][1].token.value = << >>
        /\ stack[p][1].err.code = 503

\* C8: the merged result of a chunked call has as text the texts of the
\* chunk results concatenated in chunk order, as from the from of the first
\* chunk's result, and, when raw was asked for, as raw the list of the chunk
\* results' raw in chunk order.
C8_MergeInOrder ==
    \A p \in Callers :
        \A f \in Frames(p) :
            (f.op = "translate" /\ Len(f.chunks) > 1 /\ f.pc = "returned")
            => /\ Len(f.rs) = Len(f.chunks)
               /\ f.ret.text = Concat([i \in 1..Len(f.rs) |-> f.rs[i].text])
               /\ f.ret.from = f.rs[1].from
               /\ (f.raw => /\ f.ret.raw.k = "list"
                            /\ f.ret.raw.items =
                                   [i \in 1..Len(f.rs) |-> f.rs[i].raw])

\* C8 witness: a merged result with raw whose chunks differ in text and from
C8_Witness ==
    \E p \in Callers :
        \E f \in Frames(p) :
            /\ f.op = "translate"
            /\ Len(f.chunks) > 1
            /\ f.pc = "returned"
            /\ f.raw
            /\ f.rs[1].text # f.rs[2].text
            /\ f.rs[1].from # f.rs[2].from
            /\ f.rs[1].raw # f.rs[2].raw

\* payload[8][0][0] if present, else payload[2] if present, else the
\* requested source; present: neither undefined nor null
C9_Detected ==
    IF pBody.p8 \notin {JsUndefined, JsNull} THEN pBody.p8
    ELSE IF pBody.p2 \notin {JsUndefined, JsNull} THEN pBody.p2
    ELSE pFrom

\* C9 as stated: when detected differs from the requested source,
\* didYouMean is true and iso is detected; when they are equal, didYouMean
\* is false and iso is the requested source.
C9_Original ==
    (pPc = "out" /\ pOut.ok) =>
        LET l == pOut.res.from.language
        IN  /\ (C9_Detected # pFrom => l.didYouMean /\ l.iso = C9_Detected)
            /\ (C9_Detected = pFrom => ~l.didYouMean /\ l.iso = pFrom)

\* C9 amended: when detected is a non-empty value that differs from the
\* requested source, didYouMean is true and iso is detected; otherwise
\* (detected equals the requested source, or is an empty or false value)
\* didYouMean is false and iso is the requested source.
C9_DetectionFlag ==
    (pPc = "out" /\ pOut.ok) =>
        LET l == pOut.res.from.language
            differs == /\ C9_Detected \notin {"", JsFalse}
                       /\ C9_Detected # pFrom
        IN  /\ (differs => l.didYouMean /\ l.iso = C9_Detected)
            /\ (~differs => ~l.didYouMean /\ l.iso = pFrom)

\* C9 witness: [8][0][0] and [2] disagree and the nested one is reported
C9_Witness ==
    /\ pPc = "out"
    /\ pOut.ok
    /\ pBody.p8 = "fr"
    /\ pBody.p2 = "en"
    /\ pFrom = "en"
    /\ pOut.res.from.language.didYouMean
    /\ pOut.res.from.language.iso = "fr"

\* the payload carries suggestion data: [7] is an array whose first element
\* is a non-empty string
C10_Suggests(body) ==
    /\ body.p7.arr
    /\ body.p7.first.t = "string"
    /\ body.p7.first.s # << >>

\* C10: no result returned by translate has autoCorrected and didYouMean
\* both true; a result parsed from a payload with suggestion data has
\* exactly one of them true, autoCorrected exactly when [7][5] is true; one
\* parsed from a payload without has both false and an empty value.
C10_CorrectionFlags ==
    \A p \in Callers :
        \A f \in Frames(p) :
            (f.op = "translate" /\ f.pc = "returned") =>
                LET t == f.ret.from.text
                IN  /\ ~(t.autoCorrected /\ t.didYouMean)
                    /\ (t.value = << >> => ~t.autoCorrected /\ ~t.didYouMean)
                    /\ f.src # << >> =>
                          IF C10_Suggests(f.src[1])
                          THEN /\ t.autoCorrected # t.didYouMean
                               /\ t.autoCorrected <=> f.src[1].p7.five = "true"
                          ELSE /\ ~t.autoCorrected
                               /\ ~t.didYouMean
                               /\ t.value = << >>

\* C10 witness: a merged result that carries an automatic correction
C10_Witness ==
    \E p \in Callers :
        \E f \in Frames(p) :
            /\ f.op = "translate"
            /\ f.pc = "returned"
            /\ Len(f.chunks) > 1
            /\ f.ret.from.text.autoCorrected
            /\ f.ret.from.text.value = << "[", "a", "]" >>

\* an argument is not a list, or a language of the list is unsupported
C11_BadArgs(args) ==
    \/ ~args.langsArr
    \/ ~args.wordsArr
    \/ \E i \in 1..Len(args.langs) : ~isSupported(args.langs[i])

\* C11 as stated: a loadLanguages call with an argument that is not a list
\* or with an unsupported language in its list fails with code 400 and has
\* called translate for no (language, word) pair: no Token Provider call,
\* no Transport call and no cache write.
C11_LoadFailsFast ==
    \A p \in Callers :
        stack[p] # << >> =>
            LET f == stack[p][1]
            IN  (f.op = "load" /\ C11_BadArgs(f.args))
                => /\ Settled(p)
                   /\ f.pc = "thrown"
                   /\ f.err.code = 400
                   /\ nTok[p] = 0
                   /\ nTr[p] = 0
                   /\ nSet[p] = 0

\* C12 as stated: after the initial load and after any sequence of watch
\* events, every entry of client.commands is registered under a name that
\* is a non-empty string.
C12_NamesValid ==
    \A name \in DOMAIN commands : name.t = "string" /\ name.v # ""

\* C13: a translate call that is not chunked and missed the cache builds
\* its request once, from the length of the encoded GET URL: above 2048
\* characters a POST without q in the URL and with the text in the body,
\* otherwise a GET with q in the URL and no body; the text goes in exactly
\* one of the two, and the call makes one Transport call at most, also
\* when it fails.
C13_RequestStrategy ==
    \A p \in Callers :
        \A f \in Frames(p) :
            (f.op = "translate" /\ f.chunks = << >>) =>
                /\ nTr[p] <= 1
                /\ (f.pc \in {"transport", "json", "text"} => nTr[p] = 1)
                /\ (f.pc \in {"entry", "token"} => nTr[p] = 0)
                /\ (nTr[p] = 1 =>
                      LET n == GetUrlLen(f.fromISO, f.toISO, f.text, f.token)
                      IN  /\ n > 2048 =>
                                /\ f.req.method = "POST"
                                /\ ~f.req.q
                                /\ f.req.body
                          /\ n <= 2048 =>
                                /\ f.req.method = "GET"
                                /\ f.req.q
                                /\ ~f.req.body)
                /\ (nTr[p] = 0 => f.req = NoRequest)

\* C13 witness: a call whose GET URL would be 2049 characters long has
\* failed after its one POST
C13_Witness ==
    \E p \in Callers :
        /\ Settled(p)
        /\ stack[p][1].op = "translate"
        /\ stack[p][1].pc = "thrown"
        /\ stack[p][1].req.method = "POST"
        /\ stack[p][1].req.urlLen = 2049
        /\ nTr[p] = 1

\* the key of chunk j of the chunked call f
C14_ChunkKey(f, j) == CacheKey(f.fromISO, f.toISO, f.chunks[j])

\* a chunked call has failed at chunk k = f.i: the chunks before it have
\* returned and are cached, nothing is under the original key, and no more
\* than k Token Provider and Transport calls were made
C14_Failed ==
    \A p \in Callers :
        \A f \in Frames(p) :
            (f.op = "translate" /\ Len(f.chunks) > 1 /\ f.pc = "thrown") =>
                /\ Len(f.rs) = f.i - 1
                /\ f.err # NoError
                /\ f.key \notin DOMAIN cache
                /\ \A j \in 1..(f.i - 1) :
                      /\ C14_ChunkKey(f, j) \in DOMAIN cache
                      /\ cache[C14_ChunkKey(f, j)].val = f.rs[j]
                /\ (f = stack[p][1] => nTok[p] <= f.i /\ nTr[p] <= f.i)

\* the step that takes up the failure of a chunk's translation fails the
\* chunked call with the same error and touches neither cache nor services
C14_Propagates ==
    \A p \in Callers :
        ( /\ Len(stack[p]) >= 2
          /\ Top(p).pc = "thrown"
          /\ stack[p][Len(stack[p]) - 1].op = "translate"
          /\ stack'[p] # stack[p] )
        => /\ Len(stack'[p]) = Len(stack[p]) - 1
           /\ stack'[p][Len(stack'[p])].pc = "thrown"
           /\ stack'[p][Len(stack'[p])].err = Top(p).err
           /\ cache' = cache
           /\ nTok' = nTok
           /\ nTr' = nTr
           /\ nSet' = nSet

\* C14: when the translation of chunk k of a chunked call fails, the call
\* fails with that same error, no Token Provider or Transport call is made
\* for the chunks after k, nothing is written under the original key, and
\* the results of the chunks before k stay cached under their chunk keys.
C14_FirstFailureStops == []C14_Failed /\ [][C14_Propagates]_vars

\* C14 witness: a chunked call failed at its second chunk with the status
\* error of that chunk, the first chunk's result cached
C14_Witness ==
    \E p \in Callers :
        /\ Settled(p)
        /\ stack[p][1].op = "translate"
        /\ Len(stack[p][1].chunks) = 2
        /\ stack[p][1].pc = "thrown"
        /\ stack[p][1].i = 2
        /\ stack[p][1].err.code = 429
        /\ C14_ChunkKey(stack[p][1], 1) \in DOMAIN cache
        /\ nTok[p] = 2

\* the calls of caller p that wait for the Token Provider or the Transport
C15_InFlight(p) ==
    { i \in 1..Len(stack[p]) :
        /\ stack[p][i].op = "translate"
        /\ stack[p][i].pc \in {"token", "transport", "json", "text"} }

\* C15: within one top-level translate call at most one call waits for the
\* Token Provider or the Transport at any time, and while a chunked call
\* is at chunk i the chunks before i have returned, the one call above it
\* is the call for chunk i, and no more than i Token Provider and
\* Transport calls have been started.
C15_OneInFlight ==
    \A p \in Callers :
        /\ Cardinality(C15_InFlight(p)) <= 1
        /\ \A i \in 1..Len(stack[p]) :
              (stack[p][i].op = "translate" /\ stack[p][i].pc = "chunks") =>
                  /\ Len(stack[p]) = i + 1
                  /\ Len(stack[p][i].rs) = stack[p][i].i - 1
                  /\ stack[p][i + 1].text = stack[p][i].chunks[stack[p][i].i]
                  /\ (i = 1 => /\ nTok[p] <= stack[p][i].i
                               /\ nTr[p] <= stack[p][i].i)

\* C15 witness: the request for the second chunk is in flight, the first
\* chunk's translation has returned
C15_Witness ==
    \E p \in Callers :
        /\ Len(stack[p]) = 2
        /\ stack[p][1].op = "translate"
        /\ stack[p][1].pc = "chunks"
        /\ stack[p][1].i = 2
        /\ Len(stack[p][1].rs) = 1
        /\ stack[p][2].pc = "transport"
        /\ nTr[p] = 2

\* the call has missed the cache on its key and has not yet written it
C16_BetweenMissAndWrite(f) ==
    /\ f.op = "translate"
    /\ f.pc \in {"token", "transport", "json", "text", "chunks"}

\* C16 as stated: between a call's cache miss on a key and its write of
\* that key no other call reads the same key, so no two overlapping calls
\* have both missed on one key, for a single request and for a chunked
\* call's original key alike.
C16_CheckWriteAtomic ==
    \A p \in Callers, q \in Callers :
        p # q =>
            \A f \in Frames(p), g \in Frames(q) :
                ~( /\ C16_BetweenMissAndWrite(f)
                   /\ C16_BetweenMissAndWrite(g)
                   /\ f.key = g.key )

\* C17 as stated: for every decoded payload, whatever its shape, parsing
\* completes without throwing and gives a result of the TranslateResult
\* shape; the suggestion is taken only when [7] is an array whose first
\* element is a string.
C17_FailSoft ==
    pPc = "out" =>
        /\ pOut.ok
        /\ (pOut.res.from.text.value # << >> =>
               pBody.p7.arr /\ pBody.p7.first.t = "string")

\* C18 as stated: a translate call for whose effective from or to
\* getISOCode returns null or false fails with the validation error (400)
\* and builds no cache key lookup, no token request and no Transport
\* request from the unresolved value.
C18_UnresolvedRejected ==
    \A p \in Callers :
        \A f \in Frames(p) :
            ( /\ f.op = "translate"
              /\ \/ f.fromISO \in {JsNull, JsFalse}
                 \/ f.toISO \in {JsNull, JsFalse} )
            => /\ f.pc = "thrown"
               /\ f.err.code = 400
               /\ f.token = NoToken
               /\ f.req = NoRequest
               /\ (f = stack[p][1] => nGet[p] = 0 /\ nTok[p] = 0 /\ nTr[p] = 0)

\* C19 as stated: a cache entry that translate returns for (fromISO, toISO,
\* text) was computed for that same triple.
C19_KeysInjective ==
    \A p \in Callers :
        \A f \in Frames(p) :
            (f.op = "translate" /\ ServedFromCache(f))
            => /\ f.key \in DOMAIN wrote
               /\ wrote[f.key] = Triple(f)

\* the recursion of a chunked call is one level deep: the call for a chunk
\* is not chunked again, and a call over N chunks has made N Token
\* Provider calls and N Transport calls at most
C20_Bounded ==
    \A p \in Callers :
        /\ Len(stack[p]) <= 2
        /\ \A i \in 2..Len(stack[p]) :
              stack[p][i - 1].op = "translate" =>
                  /\ stack[p][i].chunks = << >>
                  /\ stack[p][i].pc # "chunks"
                  /\ stack[p][i].limit = stack[p][i - 1].limit
        /\ (stack[p] # << >> /\ Len(stack[p][1].chunks) > 1) =>
              /\ (stack[p][1].pc = "chunks" =>
                     stack[p][1].i <= Len(stack[p][1].chunks))
              /\ nTok[p] <= Len(stack[p][1].chunks)
              /\ nTr[p] <= Len(stack[p][1].chunks)

\* C20: every chunk handed to the recursive translate call, with the
\* inherited maxChunkChars, is handled as one request or one cache hit and
\* never split again, so a chunked call over N chunks makes at most N
\* Token Provider and N Transport calls, and, the services answering, it
\* returns or fails.
C20_DepthOne ==
    /\ []C20_Bounded
    /\ \A p \in Callers : (stack[p] # << >>) ~> Settled(p)

\* C20 witness: a chunk longer than the limit is out as a single request
C20_Witness ==
    \E p \in Callers :
        /\ Len(stack[p]) = 2
        /\ stack[p][1].pc = "chunks"
        /\ Len(stack[p][1].chunks) = 3
        /\ Len(stack[p][2].text) > stack[p][2].limit
        /\ stack[p][2].pc = "transport"

====
